---- MODULE Spec2Model ----
(***************************************************************************)
(* A model of csv-cleaner-app.py: the suppression-set loader, the chunk    *)
(* filter and the streaming file processor, followed by the packaging and  *)
(* clean-up the script performs after process_files.                       *)
(*                                                                         *)
(* Text.  A string is a sequence of tokens.  A token stands for one        *)
(* character class or one literal the code looks for:                      *)
(*   "J" "B"        upper-case letters           "j" "b"  their lower case *)
(*   " "            a whitespace character       "'"      a quote (' or ") *)
(*   "-"            ':' or '-'                   "7" "8"  digits           *)
(*   "@" "."        themselves                   "/"      start of a path  *)
(*   "com"          a label that is a public suffix                        *)
(*   "Email" "email" "Phone" "phone" "Domain" "domain" "Website" "website" *)
(*   "Url" "url"    the literals the column heuristics and the prefix      *)
(*                  pattern of normalize_suppression_email search for      *)
(*   "__"           the scratch-column prefix    "id"     any other text   *)
(* A missing cell (pandas NaN) is the one-token string <<"NaN">>, Python's *)
(* None is <<"None">>.  pandas reads the text NaN as a missing cell, so    *)
(* the encoding hides no real string.                                      *)
(***************************************************************************)
EXTENDS Integers, Sequences, FiniteSets, TLC

NaN == <<"NaN">>
None == <<"None">>

\* pd.isna
isna(v) == v = NaN \/ v = None

\* str.lower() on one token
LowerTok(t) ==
    CASE t = "J" -> "j"
      [] t = "B" -> "b"
      [] t = "Email" -> "email"
      [] t = "Phone" -> "phone"
      [] t = "Domain" -> "domain"
      [] t = "Website" -> "website"
      [] t = "Url" -> "url"
      [] OTHER -> t

\* str.lower()
lower(s) == [i \in 1..Len(s) |-> LowerTok(s[i])]

IsSpace(t) == t = " "
IsDigit(t) == t \in {"7", "8"}
IsQuote(t) == t = "'"

RECURSIVE lstrip(_)
lstrip(s) == IF s # <<>> /\ IsSpace(Head(s)) THEN lstrip(Tail(s)) ELSE s

RECURSIVE rstrip(_)
rstrip(s) ==
    IF s # <<>> /\ IsSpace(s[Len(s)]) THEN rstrip(SubSeq(s, 1, Len(s) - 1)) ELSE s

\* str.strip()
strip(s) == lstrip(rstrip(s))

NotSpace(t) == ~IsSpace(t)
NotSpaceOrQuote(t) == ~IsSpace(t) /\ ~IsQuote(t)
IsDashColon(t) == t = "-"

\* "p in s" for one of the literals the heuristics search for
Contains(s, p) == \E i \in 1..Len(s) : s[i] = p

\* clean_email: None for a missing value, else strip, lower, drop whitespace
clean_email(email) ==
    IF isna(email) THEN None
    ELSE SelectSeq(lower(strip(email)), NotSpace)

\* clean_phone: None for a missing value, else the digits alone (may be empty)
clean_phone(phone) ==
    IF isna(phone) THEN None
    ELSE SelectSeq(phone, IsDigit)

\* re.sub(r"^email[:\-]*", "", e): the literal email at the start and every
\* ':' or '-' that follows it
RECURSIVE DropDashColon(_)
DropDashColon(s) ==
    IF s # <<>> /\ IsDashColon(Head(s)) THEN DropDashColon(Tail(s)) ELSE s

StripEmailPrefix(e) ==
    IF e # <<>> /\ Head(e) = "email" THEN DropDashColon(Tail(e)) ELSE e

\* normalize_suppression_email
normalize_suppression_email(e) ==
    IF isna(e) THEN None
    ELSE StripEmailPrefix(SelectSeq(lower(strip(e)), NotSpaceOrQuote))

\* tldextract.extract on a lower-cased, trimmed string: the host is the text
\* before the first "/", its labels are separated by ".", the suffix is the
\* run of public-suffix labels at the end and the domain the label before it.
RECURSIVE HostOf(_)
HostOf(s) ==
    IF s = <<>> \/ Head(s) = "/" THEN <<>> ELSE <<Head(s)>> \o HostOf(Tail(s))

\* the labels of a host, last label first
RECURSIVE LabelsRev(_, _)
LabelsRev(s, cur) ==
    IF s = <<>> THEN <<cur>>
    ELSE IF Head(s) = "." THEN LabelsRev(Tail(s), <<>>) \o <<cur>>
    ELSE LabelsRev(Tail(s), cur \o <<Head(s)>>)

IsSuffixLabel(l) == l = <<"com">>

\* number of public-suffix labels at the end of the host
RECURSIVE SuffixCount(_)
SuffixCount(rev) ==
    IF rev # <<>> /\ IsSuffixLabel(Head(rev)) THEN 1 + SuffixCount(Tail(rev)) ELSE 0

RECURSIVE JoinRev(_)
JoinRev(rev) ==
    IF rev = <<>> THEN <<>>
    ELSE IF Len(rev) = 1 THEN Head(rev)
    ELSE JoinRev(Tail(rev)) \o <<".">> \o Head(rev)

tldextract(s) ==
    LET rev == LabelsRev(HostOf(s), <<>>)
        n == SuffixCount(rev)
    IN [domain |-> IF n < Len(rev) THEN rev[n + 1] ELSE <<>>,
        suffix |-> JoinRev(SubSeq(rev, 1, n))]

\* clean_domain: None for a missing value or a value without a domain label
clean_domain(value) ==
    IF isna(value) THEN None
    ELSE LET ext == tldextract(lower(strip(value)))
         IN IF ext.domain = <<>> THEN None
            ELSE ext.domain \o <<".">> \o ext.suffix


(***************************************************************************)
(* Tables.  A DataFrame is [cols, rows]: cols the ordered column names     *)
(* (each a string, unique as pandas makes them), rows the ordered rows,    *)
(* each [index, cells] with one cell per column.                           *)
(***************************************************************************)
ColIndex(df, name) == CHOOSE i \in 1..Len(df.cols) : df.cols[i] = name

HasCol(df, name) == \E i \in 1..Len(df.cols) : df.cols[i] = name

\* df[col]: the column's cells, row by row
Column(df, name) == [r \in 1..Len(df.rows) |-> df.rows[r].cells[ColIndex(df, name)]]

\* df[name] = vals: replaces the column of that name, or appends a new one
SetColumn(df, name, vals) ==
    IF HasCol(df, name)
    THEN [cols |-> df.cols,
          rows |-> [r \in 1..Len(df.rows) |->
                      [df.rows[r] EXCEPT !.cells[ColIndex(df, name)] = vals[r]]]]
    ELSE [cols |-> Append(df.cols, name),
          rows |-> [r \in 1..Len(df.rows) |->
                      [df.rows[r] EXCEPT !.cells = Append(@, vals[r])]]]

\* the column heuristics: substring tests on the lower-cased name
IsEmailName(c) == Contains(lower(c), "email")
IsPhoneName(c) == Contains(lower(c), "phone")
IsDomainName(c) ==
    \E p \in {"domain", "website", "url"} : Contains(lower(c), p)

\* find_col: the first column whose lower-cased name contains a pattern
find_col(df, patterns) ==
    LET hits == {i \in 1..Len(df.cols) :
                    \E p \in patterns : Contains(lower(df.cols[i]), p)}
    IN IF hits = {} THEN None
       ELSE df.cols[CHOOSE i \in hits : \A j \in hits : i <= j]

\* the normaliser clean_chunk applies in each category
CleanFor(cat, v) ==
    CASE cat = "email" -> clean_email(v)
      [] cat = "phone" -> clean_phone(v)
      [] cat = "domain" -> clean_domain(v)

\* the scratch columns __email, __phone, __domain
ScratchCol(cat) == <<"__", cat>>

\* ColumnPass with the filtered frame not assigned back to df: the rows are
\* counted and stay
ColumnPassKeepsRows(st, col, cat, S) ==
    LET df1 == SetColumn(st.df, ScratchCol(cat),
                         [r \in 1..Len(st.df.rows) |->
                            CleanFor(cat, Column(st.df, col)[r])])
        k == ColIndex(df1, ScratchCol(cat))
        Keep(row) == row.cells[k] \notin S
    IN [df |-> df1,
        removed |-> st.removed + (Len(df1.rows) - Len(SelectSeq(df1.rows, Keep)))]

\* one iteration of a category loop of clean_chunk: write the scratch column,
\* drop the rows whose scratch value is in the set, count them
ColumnPass(st, col, cat, S) ==
    LET df1 == SetColumn(st.df, ScratchCol(cat),
                         [r \in 1..Len(st.df.rows) |->
                            CleanFor(cat, Column(st.df, col)[r])])
        k == ColIndex(df1, ScratchCol(cat))
        Keep(row) == row.cells[k] \notin S
        kept == SelectSeq(df1.rows, Keep)
    IN [df |-> [cols |-> df1.cols, rows |-> kept],
        removed |-> st.removed + (Len(df1.rows) - Len(kept))]

\* the element of a one-element set.  Only({F(x) : x \in {e}}) is F(e) with
\* e computed once.
Only(S) == CHOOSE x \in S : TRUE

\* a category loop of clean_chunk over its columns, in order.  (The state
\* after each column is bound by a quantifier, so that it is computed once.)
RECURSIVE CategoryPass(_, _, _, _)
CategoryPass(st, cols, cat, S) ==
    IF cols = <<>> THEN st
    ELSE Only({CategoryPass(n, Tail(cols), cat, S) :
                  n \in {ColumnPass(st, Head(cols), cat, S)}})

\* email_cols: the strict column first, then every other email column
EmailCols(df) ==
    LET strict == find_col(df, {"email"})
        fallback == SelectSeq(df.cols, IsEmailName)
        IsOther(c) == c # strict
    IN IF strict # None THEN <<strict>> \o SelectSeq(fallback, IsOther)
       ELSE fallback

NotScratch(c) == ~(Len(c) >= 1 /\ c[1] = "__")

\* df[[c for c in df.columns if not c.startswith("__")]]
DropScratch(df) ==
    LET keep == {i \in 1..Len(df.cols) : NotScratch(df.cols[i])}
        Proj(cells) == LET RECURSIVE P(_)
                           P(i) == IF i > Len(cells) THEN <<>>
                                   ELSE (IF i \in keep THEN <<cells[i]>> ELSE <<>>)
                                        \o P(i + 1)
                       IN P(1)
    IN [cols |-> SelectSeq(df.cols, NotScratch),
        rows |-> [r \in 1..Len(df.rows) |->
                    [index |-> df.rows[r].index, cells |-> Proj(df.rows[r].cells)]]]

Start(df) == [df |-> df, removed |-> 0]

EmailPass(df, suppression) ==
    CategoryPass(Start(df), EmailCols(df), "email", suppression.emails)
PhonePass(df, suppression) ==
    CategoryPass(Start(df), SelectSeq(df.cols, IsPhoneName), "phone",
                 suppression.phones)
DomainPass(df, suppression) ==
    CategoryPass(Start(df), SelectSeq(df.cols, IsDomainName), "domain",
                 suppression.domains)

\* clean_chunk from the phone pass on, and from the domain pass on
AfterPhone(e, p, suppression) ==
    Only({[df |-> DropScratch(d.df),
           removed_email |-> e.removed,
           removed_phone |-> p.removed,
           removed_domain |-> d.removed] :
             d \in {DomainPass(p.df, suppression)}})

AfterEmail(e, suppression) ==
    Only({AfterPhone(e, p, suppression) : p \in {PhonePass(e.df, suppression)}})

\* clean_chunk: the email, phone and domain passes, each over the rows the
\* pass before left, then the projection
clean_chunk(df, suppression) ==
    Only({AfterEmail(e, suppression) : e \in {EmailPass(df, suppression)}})

(***************************************************************************)
(* The run.  The script loads the reference files one after the other,     *)
(* then process_files handles the target files one after the other, chunk  *)
(* by chunk; the script then packs the outputs and deletes them.           *)
(***************************************************************************)
VARIABLES
    pc,              \* where the script is: load, file, chunks, zip, cleanup, done
    chunksize,       \* CHUNK_SIZE, scaled down to the size of the model's files
    sup_files,       \* the reference files handed to load_suppression_data so far
    emails, phones, domains, sup_logs,      \* load_suppression_data's result
    clean_files,     \* the uploads handed to process_files so far
    outcome,         \* per upload: "open", "ok" or "failed" (history)
    disk,            \* the temporary files that exist: path -> content
    source_path, out_path, first_write, rows_before, cols_found,
    removed_email_total, removed_phone_total, removed_domain_total,
    chunk_counter,
    pos,             \* rows the chunk reader has delivered
    chunk, cleaned,  \* the chunk last read and clean_chunk's result for it
    summary, logs, cleaned_paths,           \* process_files' result
    zip              \* the archive's entries, once built

supVars == <<sup_files, emails, phones, domains, sup_logs>>
fileVars == <<source_path, out_path, first_write, rows_before, cols_found,
              removed_email_total, removed_phone_total, removed_domain_total,
              chunk_counter, pos, chunk, cleaned>>
resultVars == <<summary, logs, cleaned_paths>>
vars == <<pc, chunksize, supVars, clean_files, outcome, disk, fileVars,
          resultVars, zip>>

suppression == [emails |-> emails, phones |-> phones, domains |-> domains]

\* the temporary files of the n-th upload
SrcPath(n) == <<"src", n>>
OutPath(n) == <<"out", n>>

NoPath == <<"none", 0>>
NoFrame == [cols |-> <<>>, rows |-> <<>>]

\* a dict or the disk with key k set to v; with key k removed
Put(f, k, v) == [x \in DOMAIN f \cup {k} |-> IF x = k THEN v ELSE f[x]]
Remove(f, ks) == [x \in DOMAIN f \ ks |-> f[x]]

Range(f) == {f[x] : x \in DOMAIN f}

\* df[c].dropna().map(norm): the normalised values of the cells present
NormEmails(df, c) ==
    {normalize_suppression_email(v) : v \in {w \in Range(Column(df, c)) : ~isna(w)}}
NormPhones(df, c) ==
    {clean_phone(v) : v \in {w \in Range(Column(df, c)) : ~isna(w)}}
NormDomains(df, c) ==
    {clean_domain(v) : v \in {w \in Range(Column(df, c)) : ~isna(w)}}

\* the category load_suppression_data's if/elif chain gives a column
SupCategory(c) ==
    IF IsEmailName(c) THEN "email"
    ELSE IF IsPhoneName(c) THEN "phone"
    ELSE IF IsDomainName(c) THEN "domain"
    ELSE "none"

SupColsOf(df, cat) == {i \in 1..Len(df.cols) : SupCategory(df.cols[i]) = cat}

IsFound(c) == SupCategory(c) # "none"

InitRun ==
    /\ pc = "load"
    /\ sup_files = <<>>
    /\ emails = {} /\ phones = {} /\ domains = {} /\ sup_logs = <<>>
    /\ clean_files = <<>>
    /\ outcome = <<>>
    /\ disk = <<>>
    /\ source_path = NoPath /\ out_path = NoPath
    /\ first_write = TRUE /\ rows_before = 0 /\ cols_found = {}
    /\ removed_email_total = 0 /\ removed_phone_total = 0
    /\ removed_domain_total = 0
    /\ chunk_counter = 0 /\ pos = 0
    /\ chunk = NoFrame /\ cleaned = NoFrame
    /\ summary = <<>> /\ logs = <<>> /\ cleaned_paths = <<>>
    /\ zip = {}

\* load_suppression_data, one readable file: every column adds its values to
\* the set of the category the if/elif chain gives it
LoadSuppressionFile(f) ==
    /\ pc = "load"
    /\ f.readable
    /\ sup_files' = Append(sup_files, f)
    /\ emails' = emails \cup
           UNION {NormEmails(f.df, f.df.cols[i]) : i \in SupColsOf(f.df, "email")}
    /\ phones' = phones \cup
           UNION {NormPhones(f.df, f.df.cols[i]) : i \in SupColsOf(f.df, "phone")}
    /\ domains' = domains \cup
           UNION {NormDomains(f.df, f.df.cols[i]) : i \in SupColsOf(f.df, "domain")}
    /\ sup_logs' = Append(sup_logs,
           [kind |-> "found", name |-> f.name,
            found |-> SelectSeq(f.df.cols, IsFound)])
    /\ UNCHANGED <<pc, chunksize, clean_files, outcome, disk, fileVars,
                   resultVars, zip>>

\* load_suppression_data, a file read_csv cannot read: logged and skipped
SkipSuppressionFile(f) ==
    /\ pc = "load"
    /\ ~f.readable
    /\ sup_files' = Append(sup_files, f)
    /\ sup_logs' = Append(sup_logs, [kind |-> "skipped", name |-> f.name])
    /\ UNCHANGED <<pc, chunksize, emails, phones, domains, clean_files, outcome,
                   disk, fileVars, resultVars, zip>>

\* the script: with reference files and target files given, process_files starts
BeginProcess ==
    /\ pc = "load"
    /\ sup_files # <<>>
    /\ pc' = "file"
    /\ UNCHANGED <<chunksize, supVars, clean_files, outcome, disk, fileVars,
                   resultVars, zip>>

Min(a, b) == IF a <= b THEN a ELSE b

\* the upload process_files is working on
Current == clean_files[Len(clean_files)]

IsIdentified(c) == IsEmailName(c) \/ IsPhoneName(c) \/ IsDomainName(c)

\* process_files, the head of the loop body: the upload is copied to a
\* temporary file, an empty temporary output file is created, the per-file
\* counters are reset
StartFile(u) ==
    /\ pc = "file"
    /\ LET n == Len(clean_files) + 1
       IN /\ source_path' = SrcPath(n)
          /\ out_path' = OutPath(n)
          /\ disk' = Put(Put(disk, SrcPath(n), u.df), OutPath(n),
                         [header |-> <<>>, rows |-> <<>>])
    /\ clean_files' = Append(clean_files, u)
    /\ outcome' = Append(outcome, "open")
    /\ first_write' = TRUE
    /\ rows_before' = 0
    /\ cols_found' = {}
    /\ removed_email_total' = 0
    /\ removed_phone_total' = 0
    /\ removed_domain_total' = 0
    /\ chunk_counter' = 0
    /\ pos' = 0
    /\ pc' = "chunks"
    /\ UNCHANGED <<chunksize, supVars, chunk, cleaned, resultVars, zip>>

\* the rows the reader delivers next: at most chunksize of them
NextChunk ==
    LET df == disk[source_path]
    IN [cols |-> df.cols,
        rows |-> SubSeq(df.rows, pos + 1, Min(pos + chunksize, Len(df.rows)))]

\* to_csv with mode="w": each chunk replaces the rows written before it
to_csv_overwrite(old, df, header) ==
    [header |-> IF header THEN <<df.cols>> ELSE old.header,
     rows |-> [r \in 1..Len(df.rows) |-> df.rows[r].cells]]

\* to_csv(out_path, index=False, mode="a", header=first_write)
to_csv(old, df, header) ==
    [header |-> IF header THEN Append(old.header, df.cols) ELSE old.header,
     rows |-> old.rows \o [r \in 1..Len(df.rows) |-> df.rows[r].cells]]

\* one iteration of the chunk loop.  The reader of a file with a header
\* and no data row delivers one empty chunk.
ReadChunk ==
    /\ pc = "chunks"
    /\ chunk_counter = 0 \/ pos < Len(disk[source_path].rows)
    /\ LET c == NextChunk
           r == clean_chunk(c, suppression)
       IN /\ chunk' = c
          /\ cleaned' = r.df
          /\ chunk_counter' = chunk_counter + 1
          /\ rows_before' = rows_before + Len(c.rows)
          /\ cols_found' = cols_found \cup
                 {c.cols[i] : i \in {j \in 1..Len(c.cols) : IsIdentified(c.cols[j])}}
          /\ removed_email_total' = removed_email_total + r.removed_email
          /\ removed_phone_total' = removed_phone_total + r.removed_phone
          /\ removed_domain_total' = removed_domain_total + r.removed_domain
          /\ disk' = Put(disk, out_path, to_csv(disk[out_path], r.df, first_write))
          /\ first_write' = FALSE
          /\ pos' = pos + Len(c.rows)
    /\ UNCHANGED <<pc, chunksize, supVars, clean_files, outcome, source_path,
                   out_path, resultVars, zip>>

\* FailFile with the summary record built in the finally clause: the failed
\* file gets a partial record
FailFileWithSummary ==
    /\ pc = "chunks"
    /\ logs' = Append(logs, [kind |-> "failed", name |-> Current.name])
    /\ summary' = Append(summary,
           [File |-> Current.name,
            IdentifiedColumns |-> cols_found,
            RowsBefore |-> rows_before,
            RowsAfter |-> rows_before,
            RemovedByEmail |-> removed_email_total,
            RemovedByPhone |-> removed_phone_total,
            RemovedByDomain |-> removed_domain_total,
            TotalRemoved |-> 0])
    /\ outcome' = [outcome EXCEPT ![Len(outcome)] = "failed"]
    /\ disk' = Remove(disk, {source_path})
    /\ pc' = "file"
    /\ UNCHANGED <<chunksize, supVars, clean_files, fileVars, cleaned_paths, zip>>

\* the except and finally clauses: read_csv or a later step raised; the
\* failure is logged, the input copy deleted, the loop goes on
FailFile ==
    /\ pc = "chunks"
    /\ logs' = Append(logs, [kind |-> "failed", name |-> Current.name])
    /\ outcome' = [outcome EXCEPT ![Len(outcome)] = "failed"]
    /\ disk' = Remove(disk, {source_path})
    /\ pc' = "file"
    /\ UNCHANGED <<chunksize, supVars, clean_files, fileVars, summary,
                   cleaned_paths, zip>>

\* the reader is exhausted: the summary record, the log line, the entry of
\* cleaned_paths; the finally clause deletes the input copy
FinishFile ==
    /\ pc = "chunks"
    /\ chunk_counter >= 1
    /\ pos = Len(disk[source_path].rows)
    /\ LET total_removed == removed_email_total + removed_phone_total
                            + removed_domain_total
           rows_after == rows_before - total_removed
       IN /\ logs' = Append(logs, [kind |-> "removed", name |-> Current.name,
                                   total |-> total_removed])
          /\ summary' = Append(summary,
                 [File |-> Current.name,
                  IdentifiedColumns |-> cols_found,
                  RowsBefore |-> rows_before,
                  RowsAfter |-> rows_after,
                  RemovedByEmail |-> removed_email_total,
                  RemovedByPhone |-> removed_phone_total,
                  RemovedByDomain |-> removed_domain_total,
                  TotalRemoved |-> total_removed])
    /\ cleaned_paths' = Put(cleaned_paths, Current.name, out_path)
    /\ outcome' = [outcome EXCEPT ![Len(outcome)] = "ok"]
    /\ disk' = Remove(disk, {source_path})
    /\ pc' = "file"
    /\ UNCHANGED <<chunksize, supVars, clean_files, fileVars, zip>>

\* the loop over the uploads ends: process_files returns
EndOfFiles ==
    /\ pc = "file"
    /\ clean_files # <<>>
    /\ pc' = "zip"
    /\ UNCHANGED <<chunksize, supVars, clean_files, outcome, disk, fileVars,
                   resultVars, zip>>

\* the archive: one entry per item of cleaned_paths, read from its path,
\* and the summary
BuildZip ==
    /\ pc = "zip"
    /\ zip' = {[arcname |-> n, content |-> disk[cleaned_paths[n]]] :
                  n \in DOMAIN cleaned_paths}
              \cup {[arcname |-> "_Cleaning_Summary.csv", content |-> summary]}
    /\ pc' = "cleanup"
    /\ UNCHANGED <<chunksize, supVars, clean_files, outcome, disk, fileVars,
                   resultVars>>

\* the script's last loop: every path of cleaned_paths is deleted
Cleanup ==
    /\ pc = "cleanup"
    /\ disk' = Remove(disk, Range(cleaned_paths))
    /\ pc' = "done"
    /\ UNCHANGED <<chunksize, supVars, clean_files, outcome, fileVars,
                   resultVars, zip>>

(***************************************************************************)
(* Inputs.                                                                 *)
(***************************************************************************)
MaxSupFiles == 1     \* reference files per run
MaxFiles == 2        \* target files per run
MaxRows == 2         \* data rows per target file, and the largest chunk size

ChunkSizes == 1..MaxRows

SeqsUpTo(S, n) == UNION {[1..k -> S] : k \in 0..n}

\* a DataFrame from its column names and its rows of cells; the index is
\* the RangeIndex read_csv gives, which runs on from chunk to chunk
MkDf(cols, cellrows) ==
    [cols |-> cols,
     rows |-> [i \in 1..Len(cellrows) |-> [index |-> i - 1, cells |-> cellrows[i]]]]

colEmail == <<"Email">>
colPhone == <<"Phone">>
colWebsite == <<"Website">>
colWorkEmail == <<"id", "email">>
colEmailPhone == <<"Email", "Phone">>
colScratchEmail == <<"__", "email">>
colScratchId == <<"__", "id">>
colName == <<"id">>

vJane == <<"J", "@", "b">>
vJaneLower == <<"j", "@", "b">>
vJanePadded == <<" ", "j", "@", "b", " ">>
vBob == <<"b", "@", "b">>
vEmailish == <<"email", "j", "@", "b">>
vQuoted == <<"j", "'", "j", "@", "b">>
vBlank == <<" ">>
vPhoneJ == <<"7", "-", "8">>
vPhoneJPlain == <<"7", "8">>
vPhoneB == <<"8">>
vWord == <<"j">>
vSiteJ == <<"J", ".", "b", ".", "com", "/", "j">>
vSiteJPlain == <<"b", ".", "com">>
vSiteB == <<"j", ".", "com">>
vSuffixOnly == <<"com">>

UnreadableFile == [name |-> "bad.csv", readable |-> FALSE, df |-> NoFrame]

\* Reference files of the runs that exercise the file loop and the chunk loop
SupFiles ==
    {[name |-> "sup.csv", readable |-> TRUE,
      df |-> MkDf(<<colEmail, colPhone, colWebsite>>,
                  << <<vJane, vPhoneJ, vSiteJ>> >>)],
     UnreadableFile}

\* Target files of the runs that exercise the file loop: two names, so that
\* two uploads may share one
FileContents ==
    {MkDf(<<colEmail, colPhone>>, rows) :
        rows \in {<<>>,
                  << <<vJaneLower, vPhoneB>> >>,
                  << <<vBob, vPhoneJPlain>>, <<vBob, vPhoneB>> >>}}

Uploads == {[name |-> n, df |-> d] : n \in {"a.csv", "b.csv"}, d \in FileContents}

\* Target files of the runs that exercise the chunk loop: every sequence of
\* at most MaxRows rows, under four schemas: one column per category, two
\* email columns, and an input column that carries the scratch prefix
ChunkRowsA ==
    {<<vBob, vPhoneB, vSiteB>>, <<vJanePadded, vPhoneB, vSiteB>>,
     <<vBob, vPhoneJPlain, vSiteB>>, <<vBob, vPhoneB, vSiteJPlain>>,
     <<vJaneLower, vPhoneJPlain, vSiteJPlain>>, <<NaN, NaN, NaN>>}

ChunkRowsB ==
    {<<vBob, vBob>>, <<vJane, vBob>>, <<vBob, vJaneLower>>, <<vJane, vJanePadded>>}

ChunkRowsC == {<<vBob, vBob>>, <<vBob, vJane>>, <<vJane, vBob>>}

ChunkRowsD == {<<vBob, vWord>>, <<vJane, vWord>>}

UploadsChunk ==
    {[name |-> "a.csv", df |-> MkDf(<<colEmail, colPhone, colWebsite>>, rows)] :
        rows \in SeqsUpTo(ChunkRowsA, MaxRows)}
    \cup {[name |-> "a.csv", df |-> MkDf(<<colEmail, colWorkEmail>>, rows)] :
        rows \in SeqsUpTo(ChunkRowsB, MaxRows)}
    \cup {[name |-> "a.csv", df |-> MkDf(<<colEmail, colScratchEmail>>, rows)] :
        rows \in SeqsUpTo(ChunkRowsC, MaxRows)}
    \cup {[name |-> "a.csv", df |-> MkDf(<<colEmail, colScratchId>>, rows)] :
        rows \in SeqsUpTo(ChunkRowsD, MaxRows)}

\* Inputs of the runs that exercise the normalisers and the column
\* heuristics: one reference file of one column and one cell, one target
\* file of one row
CellValues ==
    {vJane, vJanePadded, vBob, vEmailish, vQuoted, vBlank, vPhoneJ, vPhoneB,
     vWord, vSiteJ, vSuffixOnly, NaN}

SupFilesCells ==
    {[name |-> "sup.csv", readable |-> TRUE, df |-> MkDf(<<c>>, << <<v>> >>)] :
        c \in {colEmail, colPhone, colWebsite, colEmailPhone, colName},
        v \in CellValues}
    \cup {UnreadableFile}

UploadsCells ==
    {[name |-> "a.csv", df |-> MkDf(<<c>>, << <<v>> >>)] :
        c \in {colEmail, colPhone, colWebsite, colEmailPhone}, v \in CellValues}
    \cup {[name |-> "a.csv", df |-> MkDf(<<colEmail, colWorkEmail>>, << <<v, w>> >>)] :
        v \in {vJane, vBob}, w \in {vJane, vBob}}

(***************************************************************************)
(* Specifications.  The steps are the same in all three; they differ in    *)
(* the inputs the environment hands over.                                  *)
(***************************************************************************)
Init == InitRun /\ chunksize \in ChunkSizes

Steps ==
    \/ BeginProcess
    \/ ReadChunk
    \/ FailFile
    \/ FinishFile
    \/ EndOfFiles
    \/ BuildZip
    \/ Cleanup

\* runs over several target files
Next ==
    \/ /\ Len(sup_files) < MaxSupFiles
       /\ \E f \in SupFiles : LoadSuppressionFile(f)
    \/ /\ Len(sup_files) < MaxSupFiles
       /\ \E f \in SupFiles : SkipSuppressionFile(f)
    \/ /\ Len(clean_files) < MaxFiles
       /\ \E u \in Uploads : StartFile(u)
    \/ Steps

Spec == Init /\ [][Next]_vars

\* runs over one target file of any content
NextChunkRun ==
    \/ /\ Len(sup_files) < MaxSupFiles
       /\ \E f \in SupFiles : LoadSuppressionFile(f)
    \/ /\ Len(sup_files) < MaxSupFiles
       /\ \E f \in SupFiles : SkipSuppressionFile(f)
    \/ /\ clean_files = <<>>
       /\ \E u \in UploadsChunk : StartFile(u)
    \/ Steps

SpecChunk == Init /\ [][NextChunkRun]_vars

\* runs over one reference cell and one target row
NextCells ==
    \/ /\ sup_files = <<>>
       /\ \E f \in SupFilesCells : LoadSuppressionFile(f)
    \/ /\ sup_files = <<>>
       /\ \E f \in SupFilesCells : SkipSuppressionFile(f)
    \/ /\ clean_files = <<>>
       /\ \E u \in UploadsCells : StartFile(u)
    \/ Steps

InitCells == InitRun /\ chunksize = 1

SpecCells == InitCells /\ [][NextCells]_vars

(***************************************************************************)
(* Properties.                                                             *)
(***************************************************************************)
Cells(rows) == [r \in 1..Len(rows) |-> rows[r].cells]
Indices(rows) == [r \in 1..Len(rows) |-> rows[r].index]

Uploaded == 1..Len(clean_files)
OkUploads == {n \in Uploaded : outcome[n] = "ok"}
FailedUploads == {n \in Uploaded : outcome[n] = "failed"}

\* the position in summary of the record of upload n
SummaryIndex(n) == Cardinality({m \in OkUploads : m <= n})

\* process_files has returned
Returned == pc \in {"zip", "cleanup", "done"}

\* clean_chunk applied to the whole file as one chunk
Whole(n) == clean_chunk(clean_files[n].df, suppression)

\* a chunk has been filtered and chunk, cleaned hold it and the result
Filtered == chunk_counter >= 1

SetOf(cat) ==
    CASE cat = "email" -> emails
      [] cat = "phone" -> phones
      [] cat = "domain" -> domains

\* the row's value in some column of the category is in the category's set
Hit(cols, cells, cat, S) ==
    \E i \in 1..Len(cols) :
        /\ CASE cat = "email" -> IsEmailName(cols[i])
             [] cat = "phone" -> IsPhoneName(cols[i])
             [] cat = "domain" -> IsDomainName(cols[i])
        /\ CleanFor(cat, cells[i]) \in S

Suppressed(cols, row) ==
    \/ Hit(cols, row.cells, "email", emails)
    \/ Hit(cols, row.cells, "phone", phones)
    \/ Hit(cols, row.cells, "domain", domains)

NotSuppressedIn(cols, rows) ==
    LET Stays(row) == ~Suppressed(cols, row) IN SelectSeq(rows, Stays)

\* C1: clean_chunk returns exactly the rows of the chunk, in their order, that
\* have no Email column whose clean_email value is in the email set, no Phone
\* column whose clean_phone value is in the phone set and no Domain column
\* whose clean_domain value is in the domain set.
C1_ExactlyUnsuppressedRows ==
    Filtered => Indices(cleaned.rows) = Indices(NotSuppressedIn(chunk.cols, chunk.rows))

\* the statement of C1 for the chunks none of whose columns carries the
\* scratch prefix
C1_WithoutScratchNames ==
    (Filtered /\ \A i \in 1..Len(chunk.cols) : NotScratch(chunk.cols[i]))
        => Indices(cleaned.rows) = Indices(NotSuppressedIn(chunk.cols, chunk.rows))

\* a normalised value that stands for no identifier: None, or nothing left
Absent(v) == v = None \/ v = <<>>

\* the row has, in some column of some category, a value that is present
\* after normalisation and is in the category's set
PresentHit(cols, cells) ==
    \E cat \in {"email", "phone", "domain"} :
        Hit(cols, cells, cat,
            {v \in SetOf(cat) : ~Absent(v)})

\* C2: a cell that is missing or that normalises to absent never causes its
\* row to be removed: every row clean_chunk removes has, in a column of some
\* category, a present normalised value that is in that category's set.
C2_AbsencePropagation ==
    Filtered =>
        \A r \in 1..Len(chunk.rows) :
            (\A k \in 1..Len(cleaned.rows) :
                cleaned.rows[k].index # chunk.rows[r].index)
            => PresentHit(chunk.cols, chunk.rows[r].cells)

\* the same address up to letter case and surrounding whitespace
SameAddress(v, w) == ~isna(v) /\ ~isna(w) /\ lower(strip(v)) = lower(strip(w))

\* the values of the Email columns of the accepted reference files
ReferenceAddresses ==
    UNION {UNION {Range(Column(sup_files[k].df, sup_files[k].df.cols[i])) :
                     i \in {j \in 1..Len(sup_files[k].df.cols) :
                               IsEmailName(sup_files[k].df.cols[j])}} :
              k \in {m \in 1..Len(sup_files) : sup_files[m].readable}}

\* C3: a target row that carries, in an Email column, an address found in an
\* Email column of an accepted reference file (equal up to letter case and
\* surrounding whitespace) is removed.
C3_ReferenceAddressRemoved ==
    Filtered =>
        \A r \in 1..Len(chunk.rows) :
            (\E i \in 1..Len(chunk.cols), v \in ReferenceAddresses :
                /\ IsEmailName(chunk.cols[i])
                /\ SameAddress(v, chunk.rows[r].cells[i]))
            => \A k \in 1..Len(cleaned.rows) :
                   cleaned.rows[k].index # chunk.rows[r].index

\* the file of upload n has its summary record and its output is on disk
Summarised(n) == n \in OkUploads /\ OutPath(n) \in DOMAIN disk

\* C4: for every file with a summary record, Rows Before = Rows After +
\* Removed by Email + Removed by Phone + Removed by Domain, Rows Before is the
\* number of rows read and Rows After the number of data rows written.
C4_CountConservation ==
    \A n \in Uploaded :
        Summarised(n) =>
            LET rec == summary[SummaryIndex(n)]
            IN /\ rec.RowsBefore = rec.RowsAfter + rec.RemovedByEmail
                                   + rec.RemovedByPhone + rec.RemovedByDomain
               /\ rec.RowsBefore = Len(clean_files[n].df.rows)
               /\ rec.RowsAfter = Len(disk[OutPath(n)].rows)

\* a two-chunk file that lost one row to the email pass and one to the phone pass
C4_Witness ==
    /\ Summarised(1)
    /\ chunk_counter = 2
    /\ summary[1].RemovedByEmail = 1
    /\ summary[1].RemovedByPhone = 1
    /\ summary[1].RowsAfter = 0

\* C5: whatever the chunk size, chunks of one row included, the rows written
\* and the three removal totals are those of the whole file filtered as one
\* chunk.
C5_ChunkBoundaryInvariance ==
    \A n \in Uploaded :
        Summarised(n) =>
            LET rec == summary[SummaryIndex(n)]
                whole == Whole(n)
            IN /\ disk[OutPath(n)].rows = Cells(whole.df.rows)
               /\ rec.RemovedByEmail = whole.removed_email
               /\ rec.RemovedByPhone = whole.removed_phone
               /\ rec.RemovedByDomain = whole.removed_domain

\* a file read in two chunks of one row, both rows kept
C5_Witness ==
    /\ Summarised(1)
    /\ chunksize = 1
    /\ chunk_counter = 2
    /\ Len(disk[OutPath(1)].rows) = 2

\* C6: with exactly one of the N target files failing, process_files handles
\* every file, the summary has N-1 records, every other file has its record
\* and its complete output, and the failed file has no entry in cleaned_paths
\* and a failure log line.
C6_FileIsolation ==
    (pc = "zip" /\ Cardinality(FailedUploads) = 1) =>
        /\ OkUploads \cup FailedUploads = Uploaded
        /\ Len(summary) = Len(clean_files) - 1
        /\ \A n \in OkUploads :
              /\ summary[SummaryIndex(n)].File = clean_files[n].name
              /\ summary[SummaryIndex(n)].RowsBefore = Len(clean_files[n].df.rows)
              /\ OutPath(n) \in DOMAIN disk
              /\ disk[OutPath(n)] = [header |-> <<Whole(n).df.cols>>,
                                     rows |-> Cells(Whole(n).df.rows)]
        /\ \A n \in FailedUploads :
              /\ OutPath(n) \notin Range(cleaned_paths)
              /\ \E i \in 1..Len(logs) :
                    logs[i] = [kind |-> "failed", name |-> clean_files[n].name]

\* two files, the second failed after its first chunk was written
C6_Witness ==
    /\ pc = "zip"
    /\ outcome = <<"ok", "failed">>
    /\ chunk_counter = 1
    /\ Len(disk[OutPath(1)].rows) = 1

\* C7: the input copy of a file is deleted once the file is done; no
\* temporary file of a failed file exists after process_files returns; at
\* the end of the run no temporary output file exists.
C7_TemporaryStorageReleased ==
    /\ \A n \in OkUploads \cup FailedUploads : SrcPath(n) \notin DOMAIN disk
    /\ Returned => \A n \in FailedUploads : OutPath(n) \notin DOMAIN disk
    /\ pc = "done" => disk = <<>>

\* the statement of C8 for the chunks none of whose columns carries the
\* scratch prefix
C8_WithoutScratchNames ==
    (Filtered /\ \A i \in 1..Len(chunk.cols) : NotScratch(chunk.cols[i])) =>
        /\ cleaned.cols = chunk.cols
        /\ \A k \in 1..Len(cleaned.rows) :
              \E r \in 1..Len(chunk.rows) : cleaned.rows[k] = chunk.rows[r]

\* C8: the output of clean_chunk has the columns of the input, in order, no
\* scratch column, and every surviving row has its original value in every
\* column of the input.
C8_OutputFrame ==
    Filtered =>
        /\ cleaned.cols = chunk.cols
        /\ \A k \in 1..Len(cleaned.rows) :
              \E r \in 1..Len(chunk.rows) : cleaned.rows[k] = chunk.rows[r]

\* the normaliser load_suppression_data applies in each category
NormaliseFor(cat, v) ==
    IF cat = "email" THEN normalize_suppression_email(v) ELSE CleanFor(cat, v)

MatchesCategory(c, cat) ==
    CASE cat = "email" -> IsEmailName(c)
      [] cat = "phone" -> IsPhoneName(c)
      [] cat = "domain" -> IsDomainName(c)

\* C9: after load_suppression_data, for every accepted file, every category
\* and every column whose name matches the category, the normalised values
\* of the column that are not absent are in the category's set.
C9_SetConstruction ==
    \A k \in 1..Len(sup_files), cat \in {"email", "phone", "domain"} :
        sup_files[k].readable =>
            \A i \in 1..Len(sup_files[k].df.cols) :
                MatchesCategory(sup_files[k].df.cols[i], cat) =>
                    \A v \in Range(Column(sup_files[k].df, sup_files[k].df.cols[i])) :
                        (~isna(v) /\ ~Absent(NormaliseFor(cat, v)))
                        => NormaliseFor(cat, v) \in SetOf(cat)

\* C10: cleaned_paths has one entry per summary record, and the entry under
\* the file name of each record is the output written for that file.
C10_OneEntryPerSummaryRecord ==
    Returned =>
        /\ Cardinality(DOMAIN cleaned_paths) = Len(summary)
        /\ \A n \in OkUploads : cleaned_paths[clean_files[n].name] = OutPath(n)
====
